---- MODULE Spec2Model ----
(***************************************************************************)
(* Model of the LATSO demo backend (backend/main.py, backend/seed_data.py). *)
(*                                                                         *)
(* The handlers compute with Python floats (IEEE 754 binary64).  The       *)
(* first part of the module is binary64 arithmetic on exact integers:      *)
(* a float is a sign, an odd integer mantissa and a binary exponent; the   *)
(* mantissa is a little-endian sequence of 15-bit limbs, because the       *)
(* products of the arithmetic do not fit the model checker's integers.     *)
(* Infinities, NaN, subnormals and the sign of zero are not modelled: no   *)
(* value of the model comes near them.                                     *)
(***************************************************************************)
EXTENDS Integers, Sequences, FiniteSets, TLC

(***************************************************************************)
(* Natural numbers of any size.                                            *)
(***************************************************************************)
LimbBits == 15
LimbBase == 2^15

RECURSIVE Pow2(_)
Pow2(n) == IF n = 0 THEN 1 ELSE 2 * Pow2(n - 1)

RECURSIVE BNorm(_)
\* drop the most significant zero limbs; zero is the empty sequence
BNorm(a) ==
    IF a = <<>> THEN <<>>
    ELSE IF a[Len(a)] = 0 THEN BNorm(SubSeq(a, 1, Len(a) - 1))
    ELSE a

RECURSIVE BFromNat(_)
BFromNat(n) == IF n = 0 THEN <<>> ELSE <<n % LimbBase>> \o BFromNat(n \div LimbBase)

RECURSIVE BToNat(_)
BToNat(a) == IF a = <<>> THEN 0 ELSE Head(a) + LimbBase * BToNat(Tail(a))

BLimb(a, i) == IF i <= Len(a) THEN a[i] ELSE 0

RECURSIVE BAddC(_, _, _, _)
BAddC(a, b, i, c) ==
    IF i > Len(a) /\ i > Len(b)
    THEN (IF c = 0 THEN <<>> ELSE <<c>>)
    ELSE LET x == BLimb(a, i) + BLimb(b, i) + c
         IN  <<x % LimbBase>> \o BAddC(a, b, i + 1, x \div LimbBase)

BAdd(a, b) == BAddC(a, b, 1, 0)

RECURSIVE BSubC(_, _, _, _)
\* a - b for a >= b
BSubC(a, b, i, c) ==
    IF i > Len(a) THEN <<>>
    ELSE LET x == BLimb(a, i) - BLimb(b, i) - c
         IN  IF x < 0 THEN <<x + LimbBase>> \o BSubC(a, b, i + 1, 1)
             ELSE <<x>> \o BSubC(a, b, i + 1, 0)

BSub(a, b) == BNorm(BSubC(a, b, 1, 0))

RECURSIVE BCmpAt(_, _, _)
BCmpAt(a, b, i) ==
    IF i = 0 THEN 0
    ELSE IF a[i] < b[i] THEN -1
    ELSE IF a[i] > b[i] THEN 1
    ELSE BCmpAt(a, b, i - 1)

\* -1, 0, 1 as a < b, a = b, a > b (both normalised)
BCmp(a, b) ==
    IF Len(a) < Len(b) THEN -1
    ELSE IF Len(a) > Len(b) THEN 1
    ELSE BCmpAt(a, b, Len(a))

RECURSIVE BMulSmallC(_, _, _, _)
BMulSmallC(a, d, i, c) ==
    IF i > Len(a)
    THEN (IF c = 0 THEN <<>> ELSE <<c>>)
    ELSE LET x == a[i] * d + c
         IN  <<x % LimbBase>> \o BMulSmallC(a, d, i + 1, x \div LimbBase)

\* a * d for 0 <= d < LimbBase
BMulSmall(a, d) == BNorm(BMulSmallC(a, d, 1, 0))

RECURSIVE BMul(_, _)
BMul(a, b) ==
    IF a = <<>> \/ b = <<>> THEN <<>>
    ELSE LET rest == BMul(a, Tail(b))
         IN  BAdd(BMulSmall(a, Head(b)), IF rest = <<>> THEN <<>> ELSE <<0>> \o rest)

RECURSIVE SmallBitLen(_)
SmallBitLen(n) == IF n = 0 THEN 0 ELSE 1 + SmallBitLen(n \div 2)

BBitLen(a) == IF a = <<>> THEN 0 ELSE LimbBits * (Len(a) - 1) + SmallBitLen(a[Len(a)])

Zeros(n) == [i \in 1..n |-> 0]

\* a * 2^k
BShl(a, k) ==
    LET s == BMulSmall(a, Pow2(k % LimbBits))
    IN  IF s = <<>> THEN <<>> ELSE Zeros(k \div LimbBits) \o s

\* a \div 2^k
BShr(a, k) ==
    LET q == k \div LimbBits
        r == k % LimbBits
        d == IF q >= Len(a) THEN <<>> ELSE SubSeq(a, q + 1, Len(a))
    IN  BNorm([i \in 1..Len(d) |->
                  (d[i] \div Pow2(r)) + (BLimb(d, i + 1) % Pow2(r)) * Pow2(LimbBits - r)])

BIsOdd(a) == a # <<>> /\ a[1] % 2 = 1

RECURSIVE SmallTrailingZeros(_)
SmallTrailingZeros(n) == IF n % 2 = 1 THEN 0 ELSE 1 + SmallTrailingZeros(n \div 2)

RECURSIVE BTrailingZeros(_)
\* the number of trailing zero bits of a # 0
BTrailingZeros(a) ==
    IF Head(a) = 0 THEN LimbBits + BTrailingZeros(Tail(a))
    ELSE SmallTrailingZeros(Head(a))

(***************************************************************************)
(* binary64: [s |-> 1 or -1, m |-> odd mantissa (or zero), e |-> exponent], *)
(* the value s * m * 2^e, with m below 2^MantBits.                         *)
(***************************************************************************)
MantBits == 53

FZero == [s |-> 1, m |-> <<>>, e |-> 0]

\* the one representation of a value: an odd mantissa
FCanon(s, m, e) ==
    IF m = <<>> THEN FZero
    ELSE LET tz == BTrailingZeros(m)
         IN  [s |-> s, m |-> BShr(m, tz), e |-> e + tz]

\* round the exact value s * m * 2^e to MantBits bits, ties to even
FRound(s, m, e) ==
    LET len == BBitLen(m)
    IN  IF len <= MantBits THEN FCanon(s, m, e)
        ELSE LET k    == len - MantBits
                 q    == BShr(m, k)
                 rem  == BSub(m, BShl(q, k))
                 half == BShl(<<1>>, k - 1)
                 c    == BCmp(rem, half)
                 up   == c > 0 \/ (c = 0 /\ BIsOdd(q))
             IN  FCanon(s, IF up THEN BAdd(q, <<1>>) ELSE q, e + k)

\* float(n) for an int n
FFromInt(n) == FCanon(IF n < 0 THEN -1 ELSE 1, BFromNat(IF n < 0 THEN -n ELSE n), 0)

\* x * y
FMul(x, y) == FRound(x.s * y.s, BMul(x.m, y.m), x.e + y.e)

\* x + y
FAdd(x, y) ==
    LET e  == IF x.e < y.e THEN x.e ELSE y.e
        xm == BShl(x.m, x.e - e)
        ym == BShl(y.m, y.e - e)
        c  == BCmp(xm, ym)
    IN  IF x.s = y.s THEN FRound(x.s, BAdd(xm, ym), e)
        ELSE IF c = 0 THEN FZero
        ELSE IF c > 0 THEN FRound(x.s, BSub(xm, ym), e)
        ELSE FRound(y.s, BSub(ym, xm), e)

\* int(x): the integer part, toward zero
FInt(x) ==
    IF x.e >= 0 THEN x.s * BToNat(BShl(x.m, x.e))
    ELSE x.s * BToNat(BShr(x.m, 0 - x.e))

\* n / 2 for an int n (true division; exact)
FIntDiv2(n) == LET f == FFromInt(n) IN FCanon(f.s, f.m, f.e - 1)

\* the literals 0.35, 0.25, 0.15 as Python reads them
W_on_time       == [s |-> 1, m |-> <<13107, 26214, 19660, 89>>, e |-> -53]
W_quality       == [s |-> 1, m |-> <<1>>, e |-> -2]
W_cost          == [s |-> 1, m |-> <<1>>, e |-> -2]
W_communication == [s |-> 1, m |-> <<13107, 26214, 19660, 153>>, e |-> -55]

\* the weighted sum of main.py, evaluated left to right
WeightedSum(o, q, c, m) ==
    FAdd(FAdd(FAdd(FMul(FFromInt(o), W_on_time),
                   FMul(FFromInt(q), W_quality)),
              FMul(FFromInt(c), W_cost)),
         FMul(FFromInt(m), W_communication))

\* int(composite)
Composite(o, q, c, m) == FInt(WeightedSum(o, q, c, m))

(***************************************************************************)
(* The store: one sequence of rows per table, in insertion order.  Only    *)
(* the columns a handler reads or writes are kept (contact_email,          *)
(* description, budget, dates, probability and the like are not).          *)
(***************************************************************************)
VARIABLES
    projects,        \* table projects
    vendors,         \* table vendors
    work_packages,   \* table work_packages
    risks,           \* table risks
    mitigations,     \* table mitigations
    vendor_alerts,   \* table vendor_alerts
    seed,            \* where seed_demo_data stands: [pc, i]
    resp,            \* the last response of the API
    hist,            \* "seed": the script wrote to the store after the last API call;
                     \* otherwise how the last API call relates to the one before it
    calls            \* the update_vendor_score requests being served at once, one
                     \* record per request: [pc, vendor_id, scores, composite, result]

store == <<projects, vendors, work_packages, risks, mitigations, vendor_alerts>>
vars  == <<projects, vendors, work_packages, risks, mitigations, vendor_alerts,
           seed, resp, hist, calls>>

NoResponse == [op |-> "none", status |-> 0]

(***************************************************************************)
(* seed_data.py.  uuid4() ids are fresh; the script runs once, so the      *)
(* n-th id it draws for a table is modelled as n.                          *)
(***************************************************************************)
SeedProjectId == 1

project == [id |-> SeedProjectId, name |-> "Port Expansion Project - Phase 2",
            status |-> "active"]

vendors_data == <<
    [id |-> 1, name |-> "ABC Electrical", performance_score |-> 67,
     on_time_delivery |-> 60, quality_score |-> 80, cost_performance |-> 65,
     communication_score |-> 70, trend |-> "down"],
    [id |-> 2, name |-> "Steelworks Pro", performance_score |-> 89,
     on_time_delivery |-> 95, quality_score |-> 88, cost_performance |-> 85,
     communication_score |-> 90, trend |-> "up"],
    [id |-> 3, name |-> "HVAC Solutions", performance_score |-> 72,
     on_time_delivery |-> 70, quality_score |-> 75, cost_performance |-> 70,
     communication_score |-> 75, trend |-> "stable"],
    [id |-> 4, name |-> "SafeGuard Fire", performance_score |-> 94,
     on_time_delivery |-> 98, quality_score |-> 95, cost_performance |-> 90,
     communication_score |-> 95, trend |-> "up"],
    [id |-> 5, name |-> "TechNet Systems", performance_score |-> 68,
     on_time_delivery |-> 65, quality_score |-> 70, cost_performance |-> 68,
     communication_score |-> 70, trend |-> "down"] >>

work_packages_data == <<
    [id |-> 1, project_id |-> SeedProjectId, name |-> "Foundation & Structural",
     risk_level |-> "LOW", vendor_id |-> vendors_data[2].id],
    [id |-> 2, project_id |-> SeedProjectId, name |-> "Electrical Systems",
     risk_level |-> "HIGH", vendor_id |-> vendors_data[1].id],
    [id |-> 3, project_id |-> SeedProjectId, name |-> "HVAC Installation",
     risk_level |-> "MEDIUM", vendor_id |-> vendors_data[3].id],
    [id |-> 4, project_id |-> SeedProjectId, name |-> "Fire Safety Systems",
     risk_level |-> "LOW", vendor_id |-> vendors_data[4].id],
    [id |-> 5, project_id |-> SeedProjectId, name |-> "IT Infrastructure",
     risk_level |-> "MEDIUM", vendor_id |-> vendors_data[5].id],
    [id |-> 6, project_id |-> SeedProjectId, name |-> "Exterior Cladding",
     risk_level |-> "LOW", vendor_id |-> vendors_data[2].id] >>

\* 2300000.00 as a float: 71875 * 2^5
SeedImpactCost == [s |-> 1, m |-> <<6339, 2>>, e |-> 5]

electrical_risk ==
    [id |-> 1, work_package_id |-> work_packages_data[2].id,
     title |-> "Electrical Package - Vendor Performance Decline",
     impact_cost |-> SeedImpactCost, impact_days |-> 18, risk_level |-> "HIGH",
     reasoning |-> "ABC Electrical missed 3/5 recent milestones."]

seed_mitigations == <<
    [risk_id |-> electrical_risk.id, title |-> "Dual-source switchgear procurement"],
    [risk_id |-> electrical_risk.id, title |-> "Accelerate contractor penalties"],
    [risk_id |-> electrical_risk.id, title |-> "Bring backup vendor online"] >>

alerts == <<
    [vendor_id |-> vendors_data[1].id, message |-> "3 consecutive missed milestones",
     is_active |-> TRUE],
    [vendor_id |-> vendors_data[1].id, message |-> "Penalty clause triggers in 14 days",
     is_active |-> TRUE],
    [vendor_id |-> vendors_data[3].id, message |-> "Material delivery 3 days late",
     is_active |-> TRUE],
    [vendor_id |-> vendors_data[5].id, message |-> "RFI response time exceeded",
     is_active |-> TRUE] >>

\* hist after a step of the script: "seed" once it has written to the store
SeedWrote(written) == IF written THEN "seed" ELSE hist

\* the script's "except Exception: print; return"
SeedAborted == [pc |-> "aborted", i |-> 0]

\* after the i-th insert of a loop over n rows: the next row, or the next block
SeedAfter(stage, i, n, next) ==
    IF i < n THEN [pc |-> stage, i |-> i + 1] ELSE [pc |-> next, i |-> 1]

SeedProject ==
    /\ seed.pc = "project"
    /\ \E ok \in BOOLEAN :
          IF ok
          THEN projects' = Append(projects, project)
               /\ seed' = [pc |-> "vendors", i |-> 1]
          ELSE projects' = projects /\ seed' = SeedAborted
    /\ hist' = SeedWrote(projects' # projects)
    /\ UNCHANGED <<vendors, work_packages, risks, mitigations, vendor_alerts, resp, calls>>

SeedVendor ==
    /\ seed.pc = "vendors"
    /\ \E ok \in BOOLEAN :
          IF ok
          THEN vendors' = Append(vendors, vendors_data[seed.i])
               /\ seed' = SeedAfter("vendors", seed.i, Len(vendors_data), "work_packages")
          ELSE vendors' = vendors /\ seed' = SeedAborted
    /\ hist' = SeedWrote(vendors' # vendors)
    /\ UNCHANGED <<projects, work_packages, risks, mitigations, vendor_alerts, resp, calls>>

SeedWorkPackage ==
    /\ seed.pc = "work_packages"
    /\ \E ok \in BOOLEAN :
          IF ok
          THEN work_packages' = Append(work_packages, work_packages_data[seed.i])
               /\ seed' = SeedAfter("work_packages", seed.i, Len(work_packages_data), "risk")
          ELSE work_packages' = work_packages /\ seed' = SeedAborted
    /\ hist' = SeedWrote(work_packages' # work_packages)
    /\ UNCHANGED <<projects, vendors, risks, mitigations, vendor_alerts, resp, calls>>

SeedRisk ==
    /\ seed.pc = "risk"
    /\ \E ok \in BOOLEAN :
          IF ok
          THEN risks' = Append(risks, electrical_risk)
               /\ seed' = [pc |-> "mitigations", i |-> 1]
          ELSE risks' = risks /\ seed' = SeedAborted
    /\ hist' = SeedWrote(risks' # risks)
    /\ UNCHANGED <<projects, vendors, work_packages, mitigations, vendor_alerts, resp, calls>>

SeedMitigation ==
    /\ seed.pc = "mitigations"
    /\ \E ok \in BOOLEAN :
          IF ok
          THEN mitigations' = Append(mitigations, seed_mitigations[seed.i])
               /\ seed' = SeedAfter("mitigations", seed.i, Len(seed_mitigations), "alerts")
          ELSE mitigations' = mitigations /\ seed' = SeedAborted
    /\ hist' = SeedWrote(mitigations' # mitigations)
    /\ UNCHANGED <<projects, vendors, work_packages, risks, vendor_alerts, resp, calls>>

SeedAlert ==
    /\ seed.pc = "alerts"
    /\ \E ok \in BOOLEAN :
          IF ok
          THEN vendor_alerts' = Append(vendor_alerts, alerts[seed.i])
               /\ seed' = SeedAfter("alerts", seed.i, Len(alerts), "done")
          ELSE vendor_alerts' = vendor_alerts /\ seed' = SeedAborted
    /\ hist' = SeedWrote(vendor_alerts' # vendor_alerts)
    /\ UNCHANGED <<projects, vendors, work_packages, risks, mitigations, resp, calls>>

SeedEnded == seed.pc \in {"done", "aborted"}

(***************************************************************************)
(* main.py: the vendor handlers.                                           *)
(***************************************************************************)
\* every handler's "except Exception as e: raise HTTPException(500, prefix + str(e))"
ServerError(op, prefix, cause) ==
    [op |-> op, status |-> 500, detail |-> <<prefix, cause>>]

\* sub-scores the update endpoint is called with, each in 0..MaxScore
MaxScore == 1
ScoreInputs ==
    [on_time : 0..MaxScore, quality : 0..MaxScore,
     cost : 0..MaxScore, communication : 0..MaxScore]

\* sub-scores of the composite-score check, each in 0..MaxCompositeScore
MaxCompositeScore == 3
CompositeInputs ==
    [on_time : 0..MaxCompositeScore, quality : 0..MaxCompositeScore,
     cost : 0..MaxCompositeScore, communication : 0..MaxCompositeScore]

\* Composite on the sub-scores the model's rows can hold, computed once
CompositeMemo ==
    [t \in {<<s.on_time, s.quality, s.cost, s.communication>> :
                s \in ScoreInputs \cup CompositeInputs}
           \cup {<<v.on_time_delivery, v.quality_score, v.cost_performance,
                   v.communication_score>> : v \in {vendors_data[i] : i \in DOMAIN vendors_data}}
       |-> Composite(t[1], t[2], t[3], t[4])]

CompositeOf(o, q, c, m) ==
    IF <<o, q, c, m>> \in DOMAIN CompositeMemo
    THEN CompositeMemo[<<o, q, c, m>>]
    ELSE Composite(o, q, c, m)

\* a row update that blends the new composite into the stored one
UpdatedRowBlend(row, scores) ==
    [row EXCEPT !.on_time_delivery    = scores.on_time,
                !.quality_score       = scores.quality,
                !.cost_performance    = scores.cost,
                !.communication_score = scores.communication,
                !.performance_score   =
                    (row.performance_score
                     + CompositeOf(scores.on_time, scores.quality, scores.cost,
                                   scores.communication)) \div 2]

\* the row update_vendor_score writes over `row`
UpdatedRow(row, scores) ==
    [row EXCEPT !.on_time_delivery    = scores.on_time,
                !.quality_score       = scores.quality,
                !.cost_performance    = scores.cost,
                !.communication_score = scores.communication,
                !.performance_score   =
                    CompositeOf(scores.on_time, scores.quality, scores.cost,
                                scores.communication)]

UpdateVendorScore(Ids, Inputs) ==
    \E vendor_id \in Ids, scores \in Inputs, dbok \in BOOLEAN :
        LET composite == CompositeOf(scores.on_time, scores.quality, scores.cost,
                                     scores.communication)
        IN  /\ IF dbok
               THEN /\ vendors' = [i \in DOMAIN vendors |->
                                      IF vendors[i].id = vendor_id
                                      THEN UpdatedRow(vendors[i], scores)
                                      ELSE vendors[i]]
                    /\ resp' = [op |-> "update_vendor_score", status |-> 200,
                                vendor_id |-> vendor_id, scores |-> scores,
                                body |-> [success |-> TRUE, new_score |-> composite]]
               ELSE /\ vendors' = vendors
                    /\ resp' = ServerError("update_vendor_score", "Update error: ", "db")
            /\ hist' = IF /\ dbok
                          /\ hist # "seed"
                          /\ resp.op = "update_vendor_score" /\ resp.status = 200
                          /\ resp.vendor_id = vendor_id /\ resp.scores = scores
                       THEN "repeat" ELSE "none"
            /\ UNCHANGED <<projects, work_packages, risks, mitigations, vendor_alerts, seed, calls>>

\* one element of get_vendor_performance's list
VendorEntry(vendor) ==
    LET scores == [on_time       |-> vendor.on_time_delivery,
                   quality       |-> vendor.quality_score,
                   cost          |-> vendor.cost_performance,
                   communication |-> vendor.communication_score]
        joined == SelectSeq(vendor_alerts, LAMBDA a : a.vendor_id = vendor.id)
        active == SelectSeq(joined, LAMBDA a : a.is_active)
    IN  [id |-> vendor.id, name |-> vendor.name,
         score |-> CompositeOf(scores.on_time, scores.quality, scores.cost,
                               scores.communication),
         trend |-> vendor.trend,
         alerts |-> [i \in DOMAIN active |-> active[i].message],
         detailed_scores |-> scores]

GetVendorPerformance ==
    /\ \E dbok \in BOOLEAN :
          resp' = IF dbok
                  THEN [op |-> "get_vendor_performance", status |-> 200,
                        body |-> [i \in DOMAIN vendors |-> VendorEntry(vendors[i])]]
                  ELSE ServerError("get_vendor_performance", "Vendor data error: ", "db")
    /\ hist' = "none"
    /\ UNCHANGED <<store, seed, calls>>

(***************************************************************************)
(* The vendor scores: the seed script, then the vendor endpoints.  The     *)
(* update is addressed to the first seeded vendor's id, which matches no   *)
(* row until that row is inserted; an update touches no other row.         *)
(***************************************************************************)
EmptyStore ==
    /\ projects = <<>> /\ vendors = <<>> /\ work_packages = <<>>
    /\ risks = <<>> /\ mitigations = <<>> /\ vendor_alerts = <<>>

InitVendor ==
    /\ EmptyStore
    /\ seed = [pc |-> "project", i |-> 1]
    /\ resp = NoResponse
    /\ hist = "none"
    /\ calls = <<>>

VendorIdInputs == {vendors_data[1].id}

VendorUpdate  == UpdateVendorScore(VendorIdInputs, ScoreInputs)
VendorListing == GetVendorPerformance

NextVendor ==
    \/ SeedProject \/ SeedVendor \/ SeedWorkPackage
    \/ SeedRisk \/ SeedMitigation \/ SeedAlert
    \/ VendorUpdate
    \/ VendorListing

SpecVendor == InitVendor /\ [][NextVendor]_vars

\* floor((35 o + 25 q + 25 c + 15 m) / 100), in exact integer arithmetic
ExactFloor(o, q, c, m) == (35 * o + 25 * q + 25 * c + 15 * m) \div 100

UpdateOk(r) == r.op = "update_vendor_score" /\ r.status = 200

C7_UpdateIdempotent ==
    [][(UpdateOk(resp) /\ UpdateOk(resp') /\ hist' = "repeat")
          => (resp'.body.new_score = resp.body.new_score /\ vendors' = vendors)]_vars

\* C7 witness: the same update was applied twice in succession to a stored row.
C7_Witness ==
    /\ UpdateOk(resp) /\ hist = "repeat"
    /\ \E i \in DOMAIN vendors :
           /\ vendors[i].id = resp.vendor_id
           /\ vendors[i].on_time_delivery = resp.scores.on_time
           /\ vendors[i].performance_score = resp.body.new_score

(***************************************************************************)
(* The composite score alone: the store as the seed script leaves it when  *)
(* it stops after its first vendor, and the two vendor endpoints.          *)
(***************************************************************************)
InitComposite ==
    /\ projects = <<project>> /\ vendors = <<vendors_data[1]>>
    /\ work_packages = <<>> /\ risks = <<>> /\ mitigations = <<>> /\ vendor_alerts = <<>>
    /\ seed = SeedAborted
    /\ resp = NoResponse
    /\ hist = "none"
    /\ calls = <<>>

CompositeUpdate  == UpdateVendorScore(VendorIdInputs, CompositeInputs)
CompositeListing == GetVendorPerformance

NextComposite == CompositeUpdate \/ CompositeListing

SpecComposite == InitComposite /\ [][NextComposite]_vars

\* C3: the score of every listed vendor, and the new_score an update returns and
\* the performance_score it stores, are the floor (toward minus infinity) of the
\* exact weighted sum of the sub-scores (as the claim states it).
C3_ScoresAreExactFloor ==
    /\ (resp.op = "get_vendor_performance" /\ resp.status = 200)
           => \A i \in DOMAIN resp.body :
                 resp.body[i].score =
                     ExactFloor(resp.body[i].detailed_scores.on_time,
                                resp.body[i].detailed_scores.quality,
                                resp.body[i].detailed_scores.cost,
                                resp.body[i].detailed_scores.communication)
    /\ UpdateOk(resp)
           => /\ resp.body.new_score =
                     ExactFloor(resp.scores.on_time, resp.scores.quality,
                                resp.scores.cost, resp.scores.communication)
              /\ \A i \in DOMAIN vendors :
                     vendors[i].id = resp.vendor_id
                        => vendors[i].performance_score = resp.body.new_score

(***************************************************************************)
(* main.py: analyze_scenario.                                              *)
(*                                                                         *)
(* A datetime is a count of hours since 1970-01-01 00:00 (the clock is     *)
(* read to the hour); a timedelta is a count of hours.                     *)
(***************************************************************************)
MonthAbbr == <<"Jan", "Feb", "Mar", "Apr", "May", "Jun",
               "Jul", "Aug", "Sep", "Oct", "Nov", "Dec">>

\* the calendar date <<year, month, day>> of day z after 1970-01-01
CivilFromDays(z) ==
    LET zz  == z + 719468
        era == zz \div 146097
        doe == zz - era * 146097
        yoe == (doe - doe \div 1460 + doe \div 36524 - doe \div 146096) \div 365
        doy == doe - (365 * yoe + yoe \div 4 - yoe \div 100)
        mp  == (5 * doy + 2) \div 153
        d   == doy - (153 * mp + 2) \div 5 + 1
        m   == IF mp < 10 THEN mp + 3 ELSE mp - 9
        y   == yoe + era * 400 + (IF m <= 2 THEN 1 ELSE 0)
    IN  <<y, m, d>>

\* dt.strftime("%b %d, %Y"): month name, day of month, year; the time of day is dropped
Strftime(dt) ==
    LET ymd == CivilFromDays(dt \div 24)
    IN  <<MonthAbbr[ymd[2]], ymd[3], ymd[1]>>

\* timedelta(days=x) for a float x, in hours
TimedeltaDays(x) == FInt(FMul(x, FFromInt(24)))

\* "127 days remaining"
DaysRemaining == 127

\* delay_weeks // 2: the multiplier in whole numbers
MultiplierFloorDiv(delay_weeks) == FFromInt(delay_weeks \div 2)

\* multiplier = analysis.delay_weeks / 2
Multiplier(delay_weeks) == FIntDiv2(delay_weeks)

\* the step function with its thresholds met one week early
RiskLevelInclusive(delay_weeks) ==
    IF delay_weeks >= 3 THEN "CRITICAL"
    ELSE IF delay_weeks >= 2 THEN "HIGH"
    ELSE "MEDIUM"

\* "Determine risk level"
RiskLevel(delay_weeks) ==
    IF delay_weeks > 3 THEN "CRITICAL"
    ELSE IF delay_weeks > 2 THEN "HIGH"
    ELSE "MEDIUM"

\* what is surfaced of the two scaled impacts: the budget as it is, the schedule
\* as int(...) in the response and as timedelta(days=...) in the date
Surfaced(new_budget_impact, new_schedule_impact) ==
    [budget_impact   |-> new_budget_impact,
     schedule_impact |-> FInt(new_schedule_impact),
     schedule_delta  |-> TimedeltaDays(new_schedule_impact)]

\* the impacts of the base risk, times the multiplier
Scaled(base_risk, multiplier) ==
    Surfaced(FMul(base_risk.impact_cost, multiplier),
             FMul(FFromInt(base_risk.impact_days), multiplier))

\* "Calculate scaled impact based on delay multiplier"
ScaledImpact(base_risk, delay_weeks) == Scaled(base_risk, Multiplier(delay_weeks))

\* 1234567.89 as a float: a mantissa of 53 bits
FullMantissaCost == [s |-> 1, m |-> <<2621, 18350, 23071, 150>>, e |-> -32]

\* rows the risks table is filled from: the seeded risk, a second risk of the same
\* work package, and a risk of another work package with an odd impact_days
ScenarioRisks ==
    { electrical_risk,
      [id |-> 2, work_package_id |-> work_packages_data[2].id,
       title |-> "Switchgear lead time",
       impact_cost |-> FullMantissaCost, impact_days |-> 7, risk_level |-> "MEDIUM",
       reasoning |-> "Supplier quotes 7 extra days."],
      [id |-> 3, work_package_id |-> work_packages_data[3].id,
       title |-> "HVAC material supply",
       impact_cost |-> FullMantissaCost, impact_days |-> 3, risk_level |-> "LOW",
       reasoning |-> "Material delivery 3 days late."] }

\* delay_weeks of the requests: no validation, so from -1 up
MaxWeeks == 4
WeekInputs == (0 - 1)..MaxWeeks

\* readings of the clock: every six hours from 2024-10-01 00:00
MaxClock == 3
NowInputs == {19997 * 24 + 6 * k : k \in 0..MaxClock}

\* ScaledImpact on the rows and requests of the model, computed once
ScaledMemo ==
    [k \in {<<r, w>> : r \in ScenarioRisks, w \in WeekInputs}
       |-> ScaledImpact(k[1], k[2])]

ScaledImpactOf(base_risk, delay_weeks) == ScaledMemo[<<base_risk, delay_weeks>>]

\* the ScenarioResult of a base risk, its scaled impacts and the clock's reading
ScenarioResult(base_risk, scaled, delay_weeks, now) ==
    [kind |-> "return",
     base |-> base_risk,
     body |-> [budget_impact   |-> scaled.budget_impact,
               schedule_impact |-> scaled.schedule_impact,
               completion_date |-> Strftime(now + 24 * DaysRemaining + scaled.schedule_delta),
               risk_level      |-> RiskLevel(delay_weeks)]]

\* what the rows selected for the work package lead to
AnalyzeRows(data, analysis, now) ==
    IF data = <<>>
    THEN [kind |-> "raise",
          exc  |-> [type |-> "HTTPException", status_code |-> 404,
                    text |-> "Risk not found"]]
    ELSE ScenarioResult(data[1], ScaledImpactOf(data[1], analysis.delay_weeks),
                        analysis.delay_weeks, now)

\* what the body of the try block ends in: a return value or a raised exception
AnalyzeBody(analysis, now, dbok) ==
    IF ~dbok
    THEN [kind |-> "raise", exc |-> [type |-> "Exception", text |-> "db"]]
    ELSE AnalyzeRows(SelectSeq(risks, LAMBDA r : r.work_package_id = analysis.work_package_id),
                     analysis, now)

\* "except Exception": HTTPException is an Exception
CaughtByExceptException(exc) == exc.type \in {"Exception", "HTTPException"}

\* the response to the request, given what the try block ended in
AnalyzeResponse(out, request) ==
    IF out.kind = "return"
    THEN [op |-> "analyze_scenario", status |-> 200,
          body |-> out.body, base |-> out.base] @@ request
    ELSE IF CaughtByExceptException(out.exc)
    THEN ServerError("analyze_scenario", "Analysis error: ", out.exc) @@ request
    ELSE [op |-> "analyze_scenario", status |-> out.exc.status_code,
          detail |-> out.exc.text] @@ request

AnalyzeScenario(WorkPackageIds) ==
    \E work_package_id \in WorkPackageIds, delay_weeks \in WeekInputs,
       now \in NowInputs, dbok \in BOOLEAN :
        /\ resp' = AnalyzeResponse(
                      AnalyzeBody([work_package_id |-> work_package_id,
                                   delay_weeks |-> delay_weeks], now, dbok),
                      [analysis |-> [work_package_id |-> work_package_id,
                                     delay_weeks |-> delay_weeks],
                       now |-> now, dbok |-> dbok])
        /\ hist' = IF /\ resp'.status = 200
                      /\ hist # "seed"
                      /\ resp.op = "analyze_scenario" /\ resp.status = 200
                      /\ resp.analysis.work_package_id = work_package_id
                      /\ resp.analysis.delay_weeks > 0
                      /\ delay_weeks = 2 * resp.analysis.delay_weeks
                   THEN "doubled" ELSE "none"
        /\ UNCHANGED <<store, seed, calls>>

(***************************************************************************)
(* Scenario analysis: the store as the seed script leaves it, with a risks *)
(* table of up to MaxRisks rows in any order.                              *)
(***************************************************************************)
MaxRisks == 2

RECURSIVE SeqsOfDistinct(_, _)
\* the sequences of at most n distinct elements of S
SeqsOfDistinct(S, n) ==
    IF n = 0 THEN {<<>>}
    ELSE {<<>>} \cup UNION {{<<x>> \o s : s \in SeqsOfDistinct(S \ {x}, n - 1)} : x \in S}

SeededStore ==
    /\ projects = <<project>>
    /\ vendors = vendors_data
    /\ work_packages = work_packages_data
    /\ mitigations = seed_mitigations
    /\ vendor_alerts = alerts
    /\ seed = [pc |-> "done", i |-> 1]

InitScenario ==
    /\ SeededStore
    /\ risks \in SeqsOfDistinct(ScenarioRisks, MaxRisks)
    /\ resp = NoResponse
    /\ hist = "none"
    /\ calls = <<>>

ScenarioWorkPackages == {work_packages_data[2].id, work_packages_data[3].id}

ScenarioAnalyze == AnalyzeScenario(ScenarioWorkPackages)

NextScenario == ScenarioAnalyze

SpecScenario == InitScenario /\ [][NextScenario]_vars

AnalyzeOk(r) == r.op = "analyze_scenario" /\ r.status = 200

\* C1: a request for a work package no risk row names ends in 404 "Risk not found"
\* (the store having answered), and in no other error (as the claim states it).
C1_NoRiskIsNotFound ==
    (/\ resp.op = "analyze_scenario" /\ resp.dbok
     /\ \A i \in DOMAIN risks : risks[i].work_package_id # resp.analysis.work_package_id)
        => (resp.status = 404 /\ resp.detail = "Risk not found")

\* C4: for delay_weeks >= 0, schedule_impact is floor(impact_days * delay_weeks / 2)
\* and completion_date is the date of now + 127 days + schedule_impact whole days
\* (as the claim states it).
C4_DateAgreesWithScheduleImpact ==
    (AnalyzeOk(resp) /\ resp.analysis.delay_weeks >= 0)
        => /\ resp.body.schedule_impact =
                 (resp.base.impact_days * resp.analysis.delay_weeks) \div 2
           /\ resp.body.completion_date =
                 Strftime(resp.now + 24 * (DaysRemaining + resp.body.schedule_impact))

\* C5: the risk_level of a successful analysis is decided by delay_weeks alone:
\* up to 2 MEDIUM, 3 HIGH, above 3 CRITICAL, never LOW, whatever the base risk.
C5_RiskLevelByWeeksAlone ==
    AnalyzeOk(resp)
        => /\ resp.analysis.delay_weeks <= 2 => resp.body.risk_level = "MEDIUM"
           /\ resp.analysis.delay_weeks = 3  => resp.body.risk_level = "HIGH"
           /\ resp.analysis.delay_weeks > 3  => resp.body.risk_level = "CRITICAL"
           /\ resp.body.risk_level # "LOW"

\* C5 witness: a 3-week request on a base risk stored as LOW is answered HIGH.
C5_Witness ==
    /\ AnalyzeOk(resp) /\ resp.analysis.delay_weeks = 3
    /\ resp.base.risk_level = "LOW" /\ resp.body.risk_level = "HIGH"

\* 2 * x for a float x (exact)
FTwice(x) == FMul(FFromInt(2), x)

\* C6: on the same unchanged base risk, the budget_impact for delay_weeks = 2w is
\* exactly twice the budget_impact for delay_weeks = w, for w > 0.
C6_BudgetLinear ==
    [][(AnalyzeOk(resp) /\ AnalyzeOk(resp') /\ hist' = "doubled")
          => (resp'.base = resp.base
              /\ resp'.body.budget_impact = FTwice(resp.body.budget_impact))]_vars

\* C6 witness: a request for 2w weeks right after one for w weeks, w odd, on the
\* risk whose cost has a full mantissa (so that the product is rounded).
C6_Witness ==
    /\ AnalyzeOk(resp) /\ hist = "doubled"
    /\ resp.analysis.delay_weeks = 2
    /\ resp.base.impact_cost = FullMantissaCost

(***************************************************************************)
(* main.py: get_dashboard.                                                 *)
(***************************************************************************)
\* -1, 0, 1 as x < y, x = y, x > y
FSign(x) == IF x.m = <<>> THEN 0 ELSE x.s

FCmpSameSign(x, y, e) ==
    FSign(x) * BCmp(BShl(x.m, x.e - e), BShl(y.m, y.e - e))

FCmp(x, y) ==
    IF FSign(x) # FSign(y) THEN (IF FSign(x) < FSign(y) THEN -1 ELSE 1)
    ELSE IF FSign(x) = 0 THEN 0
    ELSE FCmpSameSign(x, y, IF x.e < y.e THEN x.e ELSE y.e)

\* 500000.0 as a float: 15625 * 2^5
HalfMillionCost == [s |-> 1, m |-> <<15625>>, e |-> 5]

\* the impact_cost values of the model's risk rows
RiskCosts == {SeedImpactCost, FullMantissaCost, HalfMillionCost}

\* FCmp on the costs of the model's rows, computed once
CostCmpMemo ==
    [k \in {<<a, b>> : a \in RiskCosts, b \in RiskCosts} |-> FCmp(k[1], k[2])]

CostCmp(a, b) == CostCmpMemo[<<a, b>>]

\* .limit(3)
TopRisksLimit == 3

\* the answers the store may give to order('impact_cost', desc=True).limit(n):
\* the first n rows of a descending order of the table; rows of equal cost come
\* in an order the store chooses
OrderDescLimit(table, n) ==
    LET k == IF Len(table) < n THEN Len(table) ELSE n
    IN  { [i \in 1..k |-> table[ix[i]]] :
            ix \in { s \in [1..k -> DOMAIN table] :
                       /\ \A i, j \in 1..k : i < j => s[i] # s[j]
                       /\ \A i, j \in 1..k :
                             i < j => CostCmp(table[s[i]].impact_cost,
                                              table[s[j]].impact_cost) >= 0
                       /\ \A i \in 1..k : \A o \in DOMAIN table :
                             (\A j \in 1..k : s[j] # o)
                                => CostCmp(table[s[i]].impact_cost,
                                           table[o].impact_cost) >= 0 } }

\* a filter that lets every risk at or above HIGH through
IsCriticalItemOrWorse(risk) == risk.risk_level \in {"HIGH", "CRITICAL"}

\* if risk['risk_level'] == 'HIGH'
IsCriticalItem(risk) == risk.risk_level = "HIGH"

\* one element of critical_items; of the impact text, the two values it is
\* rendered from
CriticalItem(risk) ==
    [title     |-> risk.title,
     impact    |-> [cost |-> risk.impact_cost, days |-> risk.impact_days],
     reasoning |-> risk.reasoning]

\* "Calculate AI briefing"
CriticalItems(top) ==
    LET high == SelectSeq(top, IsCriticalItem)
    IN  [i \in DOMAIN high |-> CriticalItem(high[i])]

\* select('*, vendors(name)'): the row with its vendor's name
WithVendorName(wp) ==
    LET v == SelectSeq(vendors, LAMBDA r : r.id = wp.vendor_id)
    IN  wp @@ [vendors |-> IF v = <<>> THEN "None" ELSE v[1].name]

DashboardBody(project_id, top) ==
    LET found == SelectSeq(projects, LAMBDA r : r.id = project_id)
        wps   == SelectSeq(work_packages, LAMBDA r : r.project_id = project_id)
    IN  [project         |-> IF found # <<>> THEN found[1] ELSE "None",
         work_packages   |-> [i \in DOMAIN wps |-> WithVendorName(wps[i])],
         critical_items  |-> CriticalItems(top),
         time_saved_today |-> "4.5 hrs"]

GetDashboard(ProjectIds) ==
    \E project_id \in ProjectIds, dbok \in BOOLEAN :
        /\ IF dbok
           THEN \E top \in OrderDescLimit(risks, TopRisksLimit) :
                   resp' = [op |-> "get_dashboard", status |-> 200,
                            project_id |-> project_id,
                            body |-> DashboardBody(project_id, top)]
           ELSE resp' = ServerError("get_dashboard", "Database error: ", "db")
        /\ hist' = "none"
        /\ UNCHANGED <<store, seed, calls>>

(***************************************************************************)
(* The dashboard: the seeded store with a second project and its work      *)
(* package beside the seeded ones, and a risks table of up to              *)
(* MaxDashboardRisks rows.  A row has one of two costs and one of the four *)
(* levels; the order of the rows in the table is of no account to the one  *)
(* query that reads it, so the tables are taken in one order each.         *)
(***************************************************************************)
MaxDashboardRisks == 4

RiskLevels == <<"LOW", "MEDIUM", "HIGH", "CRITICAL">>

\* the id of a second project of the store
OtherProjectId == SeedProjectId + 1

other_project == [id |-> OtherProjectId, name |-> "Terminal Refit", status |-> "active"]

other_work_package ==
    [id |-> 7, project_id |-> OtherProjectId, name |-> "Crane Electrics",
     risk_level |-> "HIGH", vendor_id |-> vendors_data[1].id]

DashboardCosts == <<HalfMillionCost, SeedImpactCost>>

\* the id-th row of the table, of the given kind (a cost and a level); the rows
\* belong by turns to a work package of the seeded and of the second project
DashboardRisk(kind, id) ==
    [id |-> id,
     work_package_id |-> IF id % 2 = 1 THEN work_packages_data[2].id
                         ELSE other_work_package.id,
     title |-> <<"Risk", id>>,
     impact_cost |-> DashboardCosts[1 + (kind % 2)],
     impact_days |-> 18,
     risk_level |-> RiskLevels[1 + ((kind \div 2) % 4)],
     reasoning |-> <<"Reasoning", id>>]

RECURSIVE KindSeqs(_, _)
\* the non-decreasing sequences of at most n kinds, none below lo
KindSeqs(n, lo) ==
    IF n = 0 THEN {<<>>}
    ELSE {<<>>} \cup UNION {{<<k>> \o s : s \in KindSeqs(n - 1, k)} :
                              k \in lo..(Len(DashboardCosts) * Len(RiskLevels) - 1)}

DashboardTables ==
    {[i \in DOMAIN ks |-> DashboardRisk(ks[i], i)] : ks \in KindSeqs(MaxDashboardRisks, 0)}

InitDashboard ==
    /\ projects = <<project, other_project>>
    /\ vendors = vendors_data
    /\ work_packages = work_packages_data \o <<other_work_package>>
    /\ mitigations = seed_mitigations
    /\ vendor_alerts = alerts
    /\ seed = [pc |-> "done", i |-> 1]
    /\ risks \in DashboardTables
    /\ resp = NoResponse
    /\ hist = "none"
    /\ calls = <<>>

DashboardProjects == {SeedProjectId, OtherProjectId, 3}

DashboardView == GetDashboard(DashboardProjects)

NextDashboard == DashboardView

SpecDashboard == InitDashboard /\ [][NextDashboard]_vars

DashboardOk(r) == r.op = "get_dashboard" /\ r.status = 200

\* the row a critical item was made from
RiskTitled(title) == CHOOSE r \in {risks[i] : i \in DOMAIN risks} : r.title = title

\* the number of rows that cost more than r, and of the other rows that cost no less
CostlierThan(r) ==
    Cardinality({i \in DOMAIN risks : CostCmp(risks[i].impact_cost, r.impact_cost) > 0})
RivalsOf(r) ==
    Cardinality({i \in DOMAIN risks :
                    risks[i].id # r.id /\ CostCmp(risks[i].impact_cost, r.impact_cost) >= 0})

\* C8: critical_items are the HIGH risks among the three costliest: every item is
\* a HIGH risk that fewer than three risks cost more than; every HIGH risk that
\* fewer than three other risks cost as much as is an item; no risk is an item
\* twice; the items come in descending order of cost.
C8_CriticalItemsAreHighOfTop3 ==
    DashboardOk(resp) =>
        LET items == resp.body.critical_items
        IN  /\ \A k \in DOMAIN items :
                  /\ \E i \in DOMAIN risks : risks[i].title = items[k].title
                  /\ RiskTitled(items[k].title).risk_level = "HIGH"
                  /\ CostlierThan(RiskTitled(items[k].title)) < TopRisksLimit
            /\ \A i \in DOMAIN risks :
                  (risks[i].risk_level = "HIGH" /\ RivalsOf(risks[i]) < TopRisksLimit)
                     => \E k \in DOMAIN items : items[k].title = risks[i].title
            /\ \A k, l \in DOMAIN items :
                  k < l => /\ items[k].title # items[l].title
                           /\ CostCmp(RiskTitled(items[k].title).impact_cost,
                                      RiskTitled(items[l].title).impact_cost) >= 0

\* C8 witness: of four risks, two HIGH ones are items, a HIGH one that costs less
\* is cut off by the limit, and a CRITICAL one among the three costliest is no item.
C8_Witness ==
    /\ DashboardOk(resp) /\ Len(risks) = 4
    /\ Len(resp.body.critical_items) = 2
    /\ \E i, j \in DOMAIN risks :
          /\ risks[i].risk_level = "HIGH" /\ CostlierThan(risks[i]) >= TopRisksLimit
          /\ risks[j].risk_level = "CRITICAL" /\ RivalsOf(risks[j]) < TopRisksLimit

\* the project a risk row belongs to, through its work package
ProjectOfRisk(r) ==
    (CHOOSE w \in {work_packages[i] : i \in DOMAIN work_packages} :
        w.id = r.work_package_id).project_id

\* C10: the critical items of the dashboard of project P are risks of project P
\* (as the claim states it).
C10_CriticalItemsOfOwnProject ==
    DashboardOk(resp) =>
        \A k \in DOMAIN resp.body.critical_items :
            ProjectOfRisk(RiskTitled(resp.body.critical_items[k].title)) = resp.project_id

(***************************************************************************)
(* main.py: generate_executive_brief.                                      *)
(***************************************************************************)
\* dt.isoformat() of a reading of the clock (counted in hours):
\* <<year, month, day, hour>>
IsoFormat(dt) == CivilFromDays(dt \div 24) \o <<dt % 24>>

\* a brief whose project_health is looked up for the project asked for
BriefForProject(project_id, now) ==
    [generated_at    |-> IsoFormat(now),
     generation_time |-> "10 seconds",
     time_saved      |-> "3 hours",
     project_health  |-> IF project_id = "1" THEN "At Risk" ELSE "Unknown",
     top_risks       |-> <<"Electrical Package Performance: ABC Electrical showing 67% compliance",
                           "IT Infrastructure Delays: 34% completion vs 45% planned",
                           "HVAC Material Supply: 3-day delivery delays impacting schedule">>,
     recommendations |-> <<"Implement dual-source procurement for electrical switchgear (+$180K)",
                           "Activate penalty clauses for ABC Electrical (triggers in 14 days)",
                           "Accelerate IT infrastructure contractor onboarding">>,
     budget_status   |-> [remaining |-> 47200000, at_risk |-> 2300000],
     schedule_status |-> [days_remaining |-> 127, at_risk_days |-> 18]]

\* brief = {...}
Brief(project_id, now) ==
    [generated_at    |-> IsoFormat(now),
     generation_time |-> "10 seconds",
     time_saved      |-> "3 hours",
     project_health  |-> "At Risk",
     top_risks       |-> <<"Electrical Package Performance: ABC Electrical showing 67% compliance",
                           "IT Infrastructure Delays: 34% completion vs 45% planned",
                           "HVAC Material Supply: 3-day delivery delays impacting schedule">>,
     recommendations |-> <<"Implement dual-source procurement for electrical switchgear (+$180K)",
                           "Activate penalty clauses for ABC Electrical (triggers in 14 days)",
                           "Accelerate IT infrastructure contractor onboarding">>,
     budget_status   |-> [remaining |-> 47200000, at_risk |-> 2300000],
     schedule_status |-> [days_remaining |-> 127, at_risk_days |-> 18]]

BriefOk(r) == r.op = "generate_executive_brief" /\ r.status = 200

GenerateExecutiveBrief(ProjectIds) ==
    \E project_id \in ProjectIds, now \in NowInputs :
        /\ resp' = [op |-> "generate_executive_brief", status |-> 200,
                    project_id |-> project_id, now |-> now,
                    body |-> Brief(project_id, now)]
        /\ hist' = IF /\ BriefOk(resp) /\ hist = "seed"
                      /\ resp.project_id # project_id /\ resp.now # now
                   THEN "other" ELSE "none"
        /\ UNCHANGED <<store, seed, calls>>

(***************************************************************************)
(* The executive brief: the seed script fills the store while briefs are   *)
(* asked for.                                                              *)
(***************************************************************************)
\* project_id: str, never looked up
BriefProjects == {"1", "2", "no-such-project"}

BriefCall == GenerateExecutiveBrief(BriefProjects)

NextBrief ==
    \/ SeedProject \/ SeedVendor \/ SeedWorkPackage
    \/ SeedRisk \/ SeedMitigation \/ SeedAlert
    \/ BriefCall

SpecBrief == InitVendor /\ [][NextBrief]_vars

\* a brief without its time stamp
Undated(body) == [f \in DOMAIN body \ {"generated_at"} |-> body[f]]

\* C9 as the claim states it: any two briefs are the same in every field.
C9_BriefsAllEqual ==
    [][(BriefOk(resp) /\ BriefOk(resp')) => resp'.body = resp.body]_vars

\* C9, amended: any two briefs are the same in every field but generated_at, which
\* is the clock's reading at the call in ISO form (so two briefs of one reading
\* are the same in every field), whatever the project_id and the store; and the
\* call (a step that is not one of the seed script's) leaves the store alone.
C9_BriefsEqualButTimeStamp ==
    [][(BriefOk(resp') /\ seed' = seed)
          => /\ store' = store
             /\ resp'.body.generated_at = IsoFormat(resp'.now)
             /\ BriefOk(resp)
                   => /\ Undated(resp'.body) = Undated(resp.body)
                      /\ resp'.now = resp.now => resp'.body = resp.body]_vars

\* C9 witness: a brief for another project, at another reading of the clock, with
\* the store written to since the brief before it.
C9_Witness == BriefOk(resp) /\ hist = "other" /\ vendors # <<>>

(***************************************************************************)
(* main.py: update_vendor_score, served for several callers at once.  A    *)
(* request computes its composite, sends the store one update of the five  *)
(* columns (a single statement, which the store applies whole), and        *)
(* returns; between those steps the other request may take its own.        *)
(***************************************************************************)
\* a request as it arrives
Arrived(vendor_id, scores) ==
    [pc |-> "composite", vendor_id |-> vendor_id, scores |-> scores,
     composite |-> 0, result |-> NoResponse]

\* composite = (...); the int() of it is taken at the two places it is used
UpdateComposite(c) ==
    /\ c \in DOMAIN calls
    /\ calls[c].pc = "composite"
    /\ calls' = [calls EXCEPT ![c].pc = "update",
                              ![c].composite =
                                  CompositeOf(calls[c].scores.on_time, calls[c].scores.quality,
                                              calls[c].scores.cost,
                                              calls[c].scores.communication)]
    /\ UNCHANGED <<store, seed, resp, hist>>

\* supabase.table('vendors').update({...}).eq('id', vendor_id).execute()
UpdateExecute(c) ==
    /\ c \in DOMAIN calls
    /\ calls[c].pc = "update"
    /\ \E dbok \in BOOLEAN :
          IF dbok
          THEN /\ vendors' = [i \in DOMAIN vendors |->
                                 IF vendors[i].id = calls[c].vendor_id
                                 THEN [UpdatedRow(vendors[i], calls[c].scores)
                                          EXCEPT !.performance_score = calls[c].composite]
                                 ELSE vendors[i]]
               /\ calls' = [calls EXCEPT ![c].pc = "return"]
               /\ resp' = resp
          ELSE /\ vendors' = vendors
               /\ calls' = [calls EXCEPT
                               ![c].pc = "done",
                               ![c].result = ServerError("update_vendor_score",
                                                         "Update error: ", "db")]
               /\ resp' = calls'[c].result
    /\ hist' = "none"
    /\ UNCHANGED <<projects, work_packages, risks, mitigations, vendor_alerts, seed>>

\* return {'success': True, 'new_score': int(composite)}
UpdateReturn(c) ==
    /\ c \in DOMAIN calls
    /\ calls[c].pc = "return"
    /\ calls' = [calls EXCEPT
                    ![c].pc = "done",
                    ![c].result = [op |-> "update_vendor_score", status |-> 200,
                                   vendor_id |-> calls[c].vendor_id,
                                   scores |-> calls[c].scores,
                                   body |-> [success |-> TRUE,
                                             new_score |-> calls[c].composite]]]
    /\ resp' = calls'[c].result
    /\ hist' = "none"
    /\ UNCHANGED <<store, seed>>

(***************************************************************************)
(* Two requests for the first seeded vendor, with different scores, on the *)
(* store as the seed script leaves it when it stops after that vendor.     *)
(***************************************************************************)
\* the scores of the two requests
RaceInputs ==
    [on_time : {MaxCompositeScore}, quality : 0..1,
     cost : 0..MaxCompositeScore, communication : {0, MaxCompositeScore}]

Callers == 1..2

InitRace ==
    /\ projects = <<project>> /\ vendors = <<vendors_data[1]>>
    /\ work_packages = <<>> /\ risks = <<>> /\ mitigations = <<>> /\ vendor_alerts = <<>>
    /\ seed = SeedAborted
    /\ resp = NoResponse
    /\ hist = "none"
    /\ \E v \in VendorIdInputs, s1 \in RaceInputs, s2 \in RaceInputs :
          /\ s1 # s2
          /\ calls = <<Arrived(v, s1), Arrived(v, s2)>>

RaceComposite == \E c \in Callers : UpdateComposite(c)
RaceExecute   == \E c \in Callers : UpdateExecute(c)
RaceReturn    == \E c \in Callers : UpdateReturn(c)

NextRace == RaceComposite \/ RaceExecute \/ RaceReturn

SpecRace == InitRace /\ [][NextRace]_vars

\* both requests have returned 200
BothUpdated == \A c \in Callers : calls[c].pc = "done" /\ calls[c].result.status = 200

\* the row holds the four sub-scores and the returned new_score of request c
RowIsWriteOf(row, c) ==
    /\ row.on_time_delivery = calls[c].scores.on_time
    /\ row.quality_score = calls[c].scores.quality
    /\ row.cost_performance = calls[c].scores.cost
    /\ row.communication_score = calls[c].scores.communication
    /\ row.performance_score = calls[c].result.body.new_score

\* the final row is the whole write of one of the two requests, never a mix
LastWriteWins ==
    BothUpdated =>
        \A i \in DOMAIN vendors :
            vendors[i].id = calls[1].vendor_id
                => \E c \in Callers : RowIsWriteOf(vendors[i], c)

\* C11: in every interleaving of two update_vendor_score requests for one vendor
\* with different scores, the final row is the whole five-column write of one of
\* them (never a mix), the stored composite is the floor of the weighted sum of
\* the stored sub-scores, and each caller's new_score is the composite (that
\* floor) of its own input (as the claim states it).
C11_ConcurrentUpdatesLastWriteWins ==
    /\ LastWriteWins
    /\ BothUpdated =>
          /\ \A i \in DOMAIN vendors :
                vendors[i].id = calls[1].vendor_id
                    => vendors[i].performance_score =
                          ExactFloor(vendors[i].on_time_delivery, vendors[i].quality_score,
                                     vendors[i].cost_performance,
                                     vendors[i].communication_score)
          /\ \A c \in Callers :
                calls[c].result.body.new_score =
                    ExactFloor(calls[c].scores.on_time, calls[c].scores.quality,
                               calls[c].scores.cost, calls[c].scores.communication)

====
